---- MODULE Spec2Model ----
(***************************************************************************)
(* A model of src/src/todo_app.py: the Task record, the JSON storage file  *)
(* and the operations of TodoApp.  Every public operation is a full        *)
(* _load of the file, a scan or mutation of the loaded list and, for the   *)
(* mutating ones, a full _save.                                            *)
(*                                                                         *)
(* Spec     one caller; each operation is one atomic step.                 *)
(* SpecRace two callers on the same file; _load and _save are separate     *)
(*          steps, so the operations of the callers interleave.            *)
(***************************************************************************)
EXTENDS Integers, Sequences, FiniteSets, TLC

(***************************************************************************)
(* Bounds of the model and constants of the program.                       *)
(***************************************************************************)
\* add_task is not offered once the file holds this many tasks.
MaxTasks == 2

\* len(title) > 200 is rejected (todo_app.py:62).
MaxTitleLen == 200

(***************************************************************************)
(* Input values.  A title is a string, written as the sequence of its runs *)
(* of equal characters: " a" is <<Run(" ", 1), Run("a", 1)>> and "a" * 200 *)
(* is <<Run("a", 200)>>.  Two adjacent runs never hold the same character, *)
(* so equal strings are written the same way.                              *)
(***************************************************************************)
Whitespace == {" ", "\t", "\n"}

Run(c, n) == [ch |-> c, n |-> n]

TitleEmpty == << >>
TitleBlank == <<Run(" ", 1), Run("\t", 1), Run("\n", 1)>>
TitleA == <<Run(" ", 1), Run("a", 1)>>
TitleMax == <<Run("a", MaxTitleLen)>>
TitleTooLong == <<Run("a", MaxTitleLen + 1)>>

Titles == {TitleEmpty, TitleBlank, TitleA, TitleMax, TitleTooLong}

Priorities == 0..4

\* The values datetime.now().isoformat() returns, in the order the clock
\* passes through them; two calls may see the same one.
Timestamps == <<"2026-01-01T09:00:00", "2026-01-01T09:00:01">>

\* Python's None, and the JSON literals json.dumps writes.
None == "None"
json_null == "null"
json_true == "true"
json_false == "false"

(***************************************************************************)
(* Task (todo_app.py:10-21).                                               *)
(***************************************************************************)
\* __post_init__ with the test written as a range that starts at 0.
Task__post_init__from_zero(priority) ==
    IF priority \notin 0..3 THEN "ValueError" ELSE "ok"

\* __post_init__: the check that makes Task(...) raise ValueError.
\* Every priority of the model is an int, so isinstance holds.
Task__post_init__(priority) ==
    IF priority \notin {1, 2, 3} THEN "ValueError" ELSE "ok"

\* The dataclass constructor with every field given.
Task(title, done, priority, created_at, completed_at) ==
    [title |-> title, done |-> done, priority |-> priority,
     created_at |-> created_at, completed_at |-> completed_at]

(***************************************************************************)
(* The storage file.  `exists` is Path.exists(); `text` is what read_text  *)
(* returns: either text json.loads rejects, or a JSON array of objects.    *)
(***************************************************************************)
Unparsable == [json |-> FALSE, items |-> << >>]

JsonArray(items) == [json |-> TRUE, items |-> items]

Missing == [exists |-> FALSE, text |-> Unparsable]

File(text) == [exists |-> TRUE, text |-> text]

\* json.dumps of one asdict(t): True/False become true/false, None null.
json_dumps_task(t) ==
    [title |-> t.title,
     done |-> IF t.done THEN json_true ELSE json_false,
     priority |-> t.priority,
     created_at |-> t.created_at,
     completed_at |-> IF t.completed_at = None THEN json_null
                      ELSE t.completed_at]

\* A load that takes every stored `done` for true, as bool() of a non-empty
\* string is.
json_loads_task_done_truthy(item) ==
    Task(item.title,
         TRUE,
         item.priority,
         item.created_at,
         IF item.completed_at = json_null THEN None ELSE item.completed_at)

\* json.loads of one object followed by Task(**item).
json_loads_task(item) ==
    Task(item.title,
         item.done = json_true,
         item.priority,
         item.created_at,
         IF item.completed_at = json_null THEN None ELSE item.completed_at)

\* _ensure_storage without the exists() test: every construction writes "[]".
_ensure_storage_always_writes(storage) == File(JsonArray(<< >>))

\* _ensure_storage: writes "[]" only when the file does not exist.
_ensure_storage(storage) ==
    IF ~storage.exists THEN File(JsonArray(<< >>)) ELSE storage

\* _load: JSONDecodeError is swallowed into [].
_load(storage) ==
    IF ~storage.text.json THEN << >>
    ELSE [i \in 1..Len(storage.text.items) |->
              json_loads_task(storage.text.items[i])]

\* _load without its `except json.JSONDecodeError`: the error, a ValueError,
\* reaches the caller.
_load_raises_undecodable(storage) ==
    \/ ~storage.text.json
    \/ \E i \in 1..Len(storage.text.items) :
           Task__post_init__(storage.text.items[i].priority) # "ok"

\* Task(**item) inside _load raises ValueError, which _load does not catch,
\* when a stored priority is not 1, 2 or 3.
_load_raises(storage) ==
    /\ storage.text.json
    /\ \E i \in 1..Len(storage.text.items) :
           Task__post_init__(storage.text.items[i].priority) # "ok"

\* _save: the whole file is overwritten.
_save(tasks) ==
    File(JsonArray([i \in 1..Len(tasks) |-> json_dumps_task(tasks[i])]))

\* The length of json.dumps(s) for a string s: the two quotes and the
\* characters, a tab or a newline being written as the two characters of
\* its escape.
RECURSIVE json_str_len(_)
json_str_len(s) ==
    IF s = << >> THEN Len("\"\"")
    ELSE Head(s).n * (IF Head(s).ch \in {"\t", "\n"} THEN 2 ELSE 1)
           + json_str_len(Tail(s))

\* The length of one object as json.dumps(..., indent=2) lays it out inside
\* an array: a field a line, a stored priority being one digit.
json_item_len(item) ==
    Len("  {\n")
    + Len("    \"title\": ") + json_str_len(item.title) + Len(",\n")
    + Len("    \"done\": ") + Len(item.done) + Len(",\n")
    + Len("    \"priority\": ") + 1 + Len(",\n")
    + Len("    \"created_at\": \"") + Len(item.created_at) + Len("\",\n")
    + Len("    \"completed_at\": ")
    + (IF item.completed_at = json_null THEN Len(json_null)
       ELSE Len("\"") + Len(item.completed_at) + Len("\""))
    + Len("\n  }")

RECURSIVE json_items_len(_)
json_items_len(items) ==
    IF items = << >> THEN 0
    ELSE json_item_len(Head(items))
           + (IF Tail(items) = << >> THEN 0 ELSE Len(",\n"))
           + json_items_len(Tail(items))

\* len(json.dumps(items, indent=2))
json_dumps_len(items) ==
    IF items = << >> THEN Len("[]")
    ELSE Len("[\n") + json_items_len(items) + Len("\n]")

\* Text of n characters that json.loads rejects: a JSON array followed by
\* the end of a longer one.
Torn(n) == [json |-> FALSE, items |-> << >>, size |-> n]

\* The length of the file's text.  Unparsable stands for the empty text of
\* a file just opened for writing.
st_size(storage) ==
    IF storage.text.json THEN json_dumps_len(storage.text.items)
    ELSE IF "size" \in DOMAIN storage.text THEN storage.text.size
    ELSE 0

\* The write() of write_text, on a file object opened with "w" earlier: the
\* text goes to offset 0 and the file keeps what it held beyond the text's
\* end, which is something only when another caller wrote a longer text
\* after this caller's open.
write(storage, text) ==
    IF st_size(storage) <= json_dumps_len(text.items) THEN File(text)
    ELSE File(Torn(st_size(storage)))

(***************************************************************************)
(* Results of a call: what it returns or raises, and the file it leaves.   *)
(***************************************************************************)
Return(value, storage) ==
    [status |-> "ok", msg |-> "", ret |-> <<value>>, storage |-> storage]

Raise(exc, msg, storage) ==
    [status |-> exc, msg |-> msg, ret |-> << >>, storage |-> storage]

LoadError(storage) ==
    Raise("ValueError", "Priority must be 1, 2, or 3", storage)

\* len(s)
RECURSIVE len(_)
len(s) == IF s = << >> THEN 0 ELSE Head(s).n + len(Tail(s))

\* str.strip(): leading and trailing whitespace removed.
RECURSIVE lstrip(_)
lstrip(s) ==
    IF s # << >> /\ Head(s).ch \in Whitespace THEN lstrip(Tail(s)) ELSE s

RECURSIVE rstrip(_)
rstrip(s) ==
    IF s # << >> /\ s[Len(s)].ch \in Whitespace
    THEN rstrip(SubSeq(s, 1, Len(s) - 1)) ELSE s

strip(s) == rstrip(lstrip(s))

\* Index of the first task whose title equals `title`, 0 when there is none:
\* the `for task in tasks: if task.title == title` scans.
first_match(tasks, title) ==
    IF \E i \in 1..Len(tasks) : tasks[i].title = title
    THEN CHOOSE i \in 1..Len(tasks) :
             /\ tasks[i].title = title
             /\ \A j \in 1..(i - 1) : tasks[j].title # title
    ELSE 0

not_found(title) == <<"Task '", title, "' not found">>

(***************************************************************************)
(* TodoApp operations (todo_app.py:56-128), as functions of the file.      *)
(***************************************************************************)
\* add_task with the length test written `>=`.
add_task_off_by_one(storage, title, priority, created_at) ==
    IF title = << >>
    THEN Raise("ValueError", "Task title cannot be empty", storage)
    ELSE IF strip(title) = << >>
    THEN Raise("ValueError", "Task title cannot be only whitespace", storage)
    ELSE IF len(title) >= MaxTitleLen
    THEN Raise("ValueError", "Task title cannot exceed 200 characters", storage)
    ELSE IF _load_raises(storage) THEN LoadError(storage)
    ELSE IF Task__post_init__(priority) # "ok"
    THEN Raise("ValueError", "Priority must be 1, 2, or 3", storage)
    ELSE LET task == Task(title, FALSE, priority, created_at, None)
             tasks == Append(_load(storage), task)
         IN Return(task, _save(tasks))

\* add_task that drops its priority argument and stores the default 1.
add_task_default_priority(storage, title, priority, created_at) ==
    IF title = << >>
    THEN Raise("ValueError", "Task title cannot be empty", storage)
    ELSE IF strip(title) = << >>
    THEN Raise("ValueError", "Task title cannot be only whitespace", storage)
    ELSE IF len(title) > MaxTitleLen
    THEN Raise("ValueError", "Task title cannot exceed 200 characters", storage)
    ELSE IF _load_raises(storage) THEN LoadError(storage)
    ELSE IF Task__post_init__(priority) # "ok"
    THEN Raise("ValueError", "Priority must be 1, 2, or 3", storage)
    ELSE LET task == Task(title, FALSE, 1, created_at, None)
             tasks == Append(_load(storage), task)
         IN Return(task, _save(tasks))

\* add_task without the title.strip() test.
add_task_no_strip(storage, title, priority, created_at) ==
    IF title = << >>
    THEN Raise("ValueError", "Task title cannot be empty", storage)
    ELSE IF len(title) > MaxTitleLen
    THEN Raise("ValueError", "Task title cannot exceed 200 characters", storage)
    ELSE IF _load_raises(storage) THEN LoadError(storage)
    ELSE IF Task__post_init__(priority) # "ok"
    THEN Raise("ValueError", "Priority must be 1, 2, or 3", storage)
    ELSE LET task == Task(title, FALSE, priority, created_at, None)
             tasks == Append(_load(storage), task)
         IN Return(task, _save(tasks))

\* add_task that puts the new task in front of the loaded list.
add_task_prepend(storage, title, priority, created_at) ==
    IF title = << >>
    THEN Raise("ValueError", "Task title cannot be empty", storage)
    ELSE IF strip(title) = << >>
    THEN Raise("ValueError", "Task title cannot be only whitespace", storage)
    ELSE IF len(title) > MaxTitleLen
    THEN Raise("ValueError", "Task title cannot exceed 200 characters", storage)
    ELSE IF _load_raises(storage) THEN LoadError(storage)
    ELSE IF Task__post_init__(priority) # "ok"
    THEN Raise("ValueError", "Priority must be 1, 2, or 3", storage)
    ELSE LET task == Task(title, FALSE, priority, created_at, None)
             tasks == <<task>> \o _load(storage)
         IN Return(task, _save(tasks))

add_task(storage, title, priority, created_at) ==
    IF title = << >>
    THEN Raise("ValueError", "Task title cannot be empty", storage)
    ELSE IF strip(title) = << >>
    THEN Raise("ValueError", "Task title cannot be only whitespace", storage)
    ELSE IF len(title) > MaxTitleLen
    THEN Raise("ValueError", "Task title cannot exceed 200 characters", storage)
    ELSE IF _load_raises(storage) THEN LoadError(storage)
    ELSE IF Task__post_init__(priority) # "ok"
    THEN Raise("ValueError", "Priority must be 1, 2, or 3", storage)
    ELSE LET task == Task(title, FALSE, priority, created_at, None)
             tasks == Append(_load(storage), task)
         IN Return(task, _save(tasks))

\* complete_task whose loop goes on after the first match: every active
\* task with the title is completed, and the first one is returned.
complete_task_all_matches(storage, title, completed_at) ==
    IF _load_raises(storage) THEN LoadError(storage)
    ELSE LET tasks == _load(storage)
             i == first_match(tasks, title)
         IN IF i = 0
            THEN Raise("TaskNotFoundError", not_found(title), storage)
            ELSE IF tasks[i].done
            THEN Raise("ValueError", "Task is already completed", storage)
            ELSE LET tasks2 == [j \in 1..Len(tasks) |->
                                   IF tasks[j].title = title /\ ~tasks[j].done
                                   THEN [tasks[j] EXCEPT !.done = TRUE,
                                                         !.completed_at = completed_at]
                                   ELSE tasks[j]]
                 IN Return(tasks2[i], _save(tasks2))

\* complete_task without the `if task.done` test: a done task is completed
\* again and stamped again.
complete_task_again(storage, title, completed_at) ==
    IF _load_raises(storage) THEN LoadError(storage)
    ELSE LET tasks == _load(storage)
             i == first_match(tasks, title)
         IN IF i = 0
            THEN Raise("TaskNotFoundError", not_found(title), storage)
            ELSE LET task == [tasks[i] EXCEPT !.done = TRUE,
                                              !.completed_at = completed_at]
                     tasks2 == [tasks EXCEPT ![i] = task]
                 IN Return(task, _save(tasks2))

\* complete_task that sets done and forgets completed_at.
complete_task_no_stamp(storage, title, completed_at) ==
    IF _load_raises(storage) THEN LoadError(storage)
    ELSE LET tasks == _load(storage)
             i == first_match(tasks, title)
         IN IF i = 0
            THEN Raise("TaskNotFoundError", not_found(title), storage)
            ELSE IF tasks[i].done
            THEN Raise("ValueError", "Task is already completed", storage)
            ELSE LET task == [tasks[i] EXCEPT !.done = TRUE]
                     tasks2 == [tasks EXCEPT ![i] = task]
                 IN Return(task, _save(tasks2))

complete_task(storage, title, completed_at) ==
    IF _load_raises(storage) THEN LoadError(storage)
    ELSE LET tasks == _load(storage)
             i == first_match(tasks, title)
         IN IF i = 0
            THEN Raise("TaskNotFoundError", not_found(title), storage)
            ELSE IF tasks[i].done
            THEN Raise("ValueError", "Task is already completed", storage)
            ELSE LET task == [tasks[i] EXCEPT !.done = TRUE,
                                              !.completed_at = completed_at]
                     tasks2 == [tasks EXCEPT ![i] = task]
                 IN Return(task, _save(tasks2))

\* delete_task that removes the last task with the title, not the first.
delete_task_last_match(storage, title) ==
    IF _load_raises(storage) THEN LoadError(storage)
    ELSE LET tasks == _load(storage)
             i == IF first_match(tasks, title) = 0 THEN 0
                  ELSE CHOOSE j \in 1..Len(tasks) :
                           /\ tasks[j].title = title
                           /\ \A k \in (j + 1)..Len(tasks) : tasks[k].title # title
         IN IF i = 0
            THEN Raise("TaskNotFoundError", not_found(title), storage)
            ELSE LET tasks2 == SubSeq(tasks, 1, i - 1)
                                 \o SubSeq(tasks, i + 1, Len(tasks))
                 IN Return(tasks[i], _save(tasks2))

\* delete_task that pops the task and forgets to _save.
delete_task_no_save(storage, title) ==
    IF _load_raises(storage) THEN LoadError(storage)
    ELSE LET tasks == _load(storage)
             i == first_match(tasks, title)
         IN IF i = 0
            THEN Raise("TaskNotFoundError", not_found(title), storage)
            ELSE Return(tasks[i], storage)

\* delete_task that saves the list it loaded when nothing matches, which
\* rewrites a file that held no JSON.
delete_task_save_on_miss(storage, title) ==
    IF _load_raises(storage) THEN LoadError(storage)
    ELSE LET tasks == _load(storage)
             i == first_match(tasks, title)
         IN IF i = 0
            THEN Raise("TaskNotFoundError", not_found(title), _save(tasks))
            ELSE LET tasks2 == SubSeq(tasks, 1, i - 1)
                                 \o SubSeq(tasks, i + 1, Len(tasks))
                 IN Return(tasks[i], _save(tasks2))

delete_task(storage, title) ==
    IF _load_raises(storage) THEN LoadError(storage)
    ELSE LET tasks == _load(storage)
             i == first_match(tasks, title)
         IN IF i = 0
            THEN Raise("TaskNotFoundError", not_found(title), storage)
            ELSE LET tasks2 == SubSeq(tasks, 1, i - 1)
                                 \o SubSeq(tasks, i + 1, Len(tasks))
                 IN Return(tasks[i], _save(tasks2))

get_task(storage, title) ==
    IF _load_raises(storage) THEN LoadError(storage)
    ELSE LET tasks == _load(storage)
             i == first_match(tasks, title)
         IN IF i = 0
            THEN Raise("TaskNotFoundError", not_found(title), storage)
            ELSE Return(tasks[i], storage)

get_all_tasks(storage) ==
    IF _load_raises(storage) THEN LoadError(storage)
    ELSE Return(_load(storage), storage)

\* sum(pred(t) for t in tasks)
RECURSIVE count_done(_, _)
count_done(tasks, flag) ==
    IF tasks = << >> THEN 0
    ELSE (IF Head(tasks).done = flag THEN 1 ELSE 0)
           + count_done(Tail(tasks), flag)

\* active_tasks_count that counts every task.
active_tasks_count_all(storage) ==
    IF _load_raises(storage) THEN LoadError(storage)
    ELSE Return(Len(_load(storage)), storage)

active_tasks_count(storage) ==
    IF _load_raises(storage) THEN LoadError(storage)
    ELSE Return(count_done(_load(storage), FALSE), storage)

completed_tasks_count(storage) ==
    IF _load_raises(storage) THEN LoadError(storage)
    ELSE Return(count_done(_load(storage), TRUE), storage)

\* A filter that builds its result back to front.
RECURSIVE filter_priority_reversed(_, _)
filter_priority_reversed(tasks, priority) ==
    IF tasks = << >> THEN << >>
    ELSE filter_priority_reversed(Tail(tasks), priority)
           \o (IF Head(tasks).priority = priority THEN <<Head(tasks)>> ELSE << >>)

\* [t for t in tasks if t.priority == priority]
RECURSIVE filter_priority(_, _)
filter_priority(tasks, priority) ==
    IF tasks = << >> THEN << >>
    ELSE (IF Head(tasks).priority = priority THEN <<Head(tasks)>> ELSE << >>)
           \o filter_priority(Tail(tasks), priority)

\* get_tasks_by_priority that saves the filtered list before it returns it.
get_tasks_by_priority_saves(storage, priority) ==
    IF priority \notin {1, 2, 3}
    THEN Raise("ValueError", "Priority must be 1, 2, or 3", storage)
    ELSE IF _load_raises(storage) THEN LoadError(storage)
    ELSE LET tasks == filter_priority(_load(storage), priority)
         IN Return(tasks, _save(tasks))

get_tasks_by_priority(storage, priority) ==
    IF priority \notin {1, 2, 3}
    THEN Raise("ValueError", "Priority must be 1, 2, or 3", storage)
    ELSE IF _load_raises(storage) THEN LoadError(storage)
    ELSE Return(filter_priority(_load(storage), priority), storage)

get_high_priority_tasks(storage) == get_tasks_by_priority(storage, 3)

(***************************************************************************)
(* State.                                                                  *)
(*   storage      the file at the storage location                         *)
(*   clock        the position of the system clock in Timestamps           *)
(*   constructed  a TodoApp has been constructed on the location           *)
(*   before       the file as it was when the last call started            *)
(*   last         the last call: operation, arguments, result              *)
(*   callers      SpecRace: each caller's call in progress and last result *)
(*   calls        SpecRace: the number of calls started                    *)
(***************************************************************************)
VARIABLES storage, clock, constructed, before, last, callers, calls

vars == <<storage, clock, constructed, before, last, callers, calls>>

Callers == {1, 2}

\* datetime.now().isoformat()
now == Timestamps[clock]

Call(op, title, priority, r) ==
    [op |-> op, title |-> title, priority |-> priority,
     status |-> r.status, msg |-> r.msg, ret |-> r.ret]

\* An argument the operation does not take.
NoArg == << >>

\* A caller that is in no call and has made none.
Idle ==
    [pc |-> "idle", op |-> "none", title |-> NoArg, priority |-> NoArg,
     snapshot |-> Missing, pending |-> Missing,
     status |-> "ok", msg |-> "", ret |-> <<None>>]

\* Before construction the location holds no file, an empty collection, or
\* text that is not JSON.
Init ==
    /\ storage \in {Missing, File(JsonArray(<< >>)), File(Unparsable)}
    /\ clock = 1
    /\ constructed = FALSE
    /\ before = storage
    /\ last = Call("none", NoArg, NoArg, Return(None, storage))
    /\ callers = [c \in Callers |-> Idle]
    /\ calls = 0

Do(op, title, priority, r) ==
    /\ before' = storage
    /\ storage' = r.storage
    /\ last' = Call(op, title, priority, r)
    /\ UNCHANGED <<clock, constructed, callers, calls>>

\* TodoApp(storage): __init__ calls _ensure_storage.
TodoApp__init__ ==
    /\ before' = storage
    /\ storage' = _ensure_storage(storage)
    /\ constructed' = TRUE
    /\ UNCHANGED <<clock, callers, calls>>
    /\ last' = Call("__init__", NoArg, NoArg, Return(None, storage'))

AddTask ==
    /\ constructed
    /\ Len(_load(storage)) < MaxTasks
    /\ \E title \in Titles, priority \in Priorities :
           Do("add_task", title, priority,
              add_task(storage, title, priority, now))

CompleteTask ==
    /\ constructed
    /\ \E title \in Titles :
           Do("complete_task", title, NoArg,
              complete_task(storage, title, now))

DeleteTask ==
    /\ constructed
    /\ \E title \in Titles :
           Do("delete_task", title, NoArg, delete_task(storage, title))

GetTask ==
    /\ constructed
    /\ \E title \in Titles :
           Do("get_task", title, NoArg, get_task(storage, title))

GetAllTasks ==
    /\ constructed
    /\ Do("get_all_tasks", NoArg, NoArg, get_all_tasks(storage))

ActiveTasksCount ==
    /\ constructed
    /\ Do("active_tasks_count", NoArg, NoArg,
          active_tasks_count(storage))

CompletedTasksCount ==
    /\ constructed
    /\ Do("completed_tasks_count", NoArg, NoArg,
          completed_tasks_count(storage))

GetTasksByPriority ==
    /\ constructed
    /\ \E priority \in Priorities :
           Do("get_tasks_by_priority", NoArg, priority,
              get_tasks_by_priority(storage, priority))

GetHighPriorityTasks ==
    /\ constructed
    /\ Do("get_high_priority_tasks", NoArg, NoArg,
          get_high_priority_tasks(storage))

\* Time passes between calls.
Tick ==
    /\ clock < Len(Timestamps)
    /\ clock' = clock + 1
    /\ UNCHANGED <<storage, constructed, before, last, callers, calls>>

Next ==
    \/ Tick
    \/ TodoApp__init__
    \/ AddTask
    \/ CompleteTask
    \/ DeleteTask
    \/ GetTask
    \/ GetAllTasks
    \/ ActiveTasksCount
    \/ CompletedTasksCount
    \/ GetTasksByPriority
    \/ GetHighPriorityTasks

Spec == Init /\ [][Next]_vars

(***************************************************************************)
(* SpecRace: two callers share the file and nothing locks it.  A mutating  *)
(* call is three steps: read_text inside _load (the title tests of         *)
(* add_task come before it), then the work on the loaded list up to the    *)
(* open() of write_text, which truncates the file, then the write of the   *)
(* new text at offset 0.  The steps of the two callers interleave freely.  *)
(***************************************************************************)
\* No call is started once this many have been.
MaxCalls == 3

RaceTitles == {TitleA, TitleMax}
RacePriorities == {0, 1, 3}

\* The text of a file that open(..., "w") has truncated: json.loads("")
\* raises JSONDecodeError.
Truncated == File(Unparsable)

\* The operation `op` on the file `file`.
Apply(op, file, title, priority, time) ==
    CASE op = "add_task" -> add_task(file, title, priority, time)
      [] op = "complete_task" -> complete_task(file, title, time)
      [] op = "delete_task" -> delete_task(file, title)

\* A call that reads the file again when it comes to save, as a call under
\* a lock would.
tasks_at_save_reread(snapshot, current) == current

\* What a call works on when it comes to save: `tasks = self._load()` is
\* the list read when the call began, not the file as it is by then.
tasks_at_save(snapshot, current) == snapshot

InitRace ==
    /\ storage = File(JsonArray(<< >>))
    /\ clock = 1
    /\ constructed = TRUE
    /\ before = storage
    /\ last = Call("none", NoArg, NoArg, Return(None, storage))
    /\ callers = [c \in Callers |-> Idle]
    /\ calls = 0

\* A caller starts a call and reads the file.
RaceLoad(c) ==
    /\ callers[c].pc = "idle"
    /\ calls < MaxCalls
    /\ calls' = calls + 1
    /\ \E op \in {"add_task", "complete_task", "delete_task"},
          title \in RaceTitles, priority \in RacePriorities :
           /\ op = "add_task" \/ priority = 1
           /\ op = "add_task" => Len(_load(storage)) < MaxTasks
           /\ callers' = [callers EXCEPT ![c] =
                  [pc |-> "loaded", op |-> op, title |-> title,
                   priority |-> IF op = "add_task" THEN priority ELSE NoArg,
                   snapshot |-> storage, pending |-> Missing,
                   status |-> "ok", msg |-> "", ret |-> <<None>>]]
    /\ UNCHANGED <<storage, clock, constructed, before, last>>

\* The caller works on the list it loaded.  A call that raises ends here and
\* leaves the file alone; the others open the file for writing.
RaceOpen(c) ==
    /\ callers[c].pc = "loaded"
    /\ LET me == callers[c]
           r == Apply(me.op, tasks_at_save(me.snapshot, storage),
                      me.title, me.priority, now)
       IN IF r.status = "ok"
          THEN /\ storage' = Truncated
               /\ callers' = [callers EXCEPT ![c] =
                      [me EXCEPT !.pc = "writing", !.pending = r.storage,
                                 !.ret = r.ret]]
          ELSE /\ storage' = storage
               /\ callers' = [callers EXCEPT ![c] =
                      [me EXCEPT !.pc = "idle", !.status = r.status,
                                 !.msg = r.msg, !.ret = r.ret]]
    /\ UNCHANGED <<clock, constructed, before, last, calls>>

\* write_text writes the new text over what the file holds by then and the
\* call returns.
RaceWrite(c) ==
    /\ callers[c].pc = "writing"
    /\ storage' = write(storage, callers[c].pending.text)
    /\ callers' = [callers EXCEPT ![c] =
           [callers[c] EXCEPT !.pc = "idle", !.status = "ok"]]
    /\ UNCHANGED <<clock, constructed, before, last, calls>>

NextRace ==
    \/ Tick
    \/ \E c \in Callers : RaceLoad(c)
    \/ \E c \in Callers : RaceOpen(c)
    \/ \E c \in Callers : RaceWrite(c)

SpecRace == InitRace /\ [][NextRace]_vars

(***************************************************************************)
(* Properties of the single-caller specification Spec.                     *)
(***************************************************************************)
\* The collections a caller sees now and saw when the last call started.
StoredTasks == _load(storage)
BeforeTasks == _load(before)

Succeeded(op) == last.op = op /\ last.status = "ok"

\* The positions of `tasks` that hold `title`.
Holding(tasks, title) == {i \in 1..Len(tasks) : tasks[i].title = title}

\* `tasks` without its element k.
Remove(tasks, k) == SubSeq(tasks, 1, k - 1) \o SubSeq(tasks, k + 1, Len(tasks))

\* A title add_task accepts: not empty, not only whitespace, at most
\* MaxTitleLen characters.
ValidTitle(title) ==
    /\ title # << >>
    /\ \E i \in 1..Len(title) : title[i].ch \notin Whitespace
    /\ len(title) <= MaxTitleLen

\* get_task(title) returns a fresh task with the arguments of the last add.
GetReturnsTheAddedTask ==
    LET r == get_task(storage, last.title)
    IN /\ r.status = "ok"
       /\ r.ret[1].title = last.title
       /\ r.ret[1].priority = last.priority
       /\ r.ret[1].done = FALSE
       /\ r.ret[1].completed_at = None

\* C1 as stated: after every successful add_task(title, priority), get_task(title)
\* returns a task with that title and priority, done = false and
\* completed_at = null.
C1_AddThenGet == Succeeded("add_task") => GetReturnsTheAddedTask

\* C1 amended: after a successful add_task(title, priority), get_task(title)
\* returns a task with that title and priority, done = false and
\* completed_at = null when no task with that title was stored before the
\* call; when one was, get_task(title) returns the first such earlier task as
\* it was before the call.
C1_AddThenGetUnlessDuplicate ==
    Succeeded("add_task") =>
        /\ ValidTitle(last.title) /\ last.priority \in {1, 2, 3}
        /\ IF Holding(BeforeTasks, last.title) = {}
           THEN GetReturnsTheAddedTask
           ELSE LET i == CHOOSE j \in Holding(BeforeTasks, last.title) :
                            \A k \in Holding(BeforeTasks, last.title) : j <= k
                IN get_task(storage, last.title)
                     = Return(BeforeTasks[i], storage)

\* C1 witness: a task with a new title has just been added to a store that
\* already holds a task.
C1_Witness ==
    /\ Succeeded("add_task")
    /\ BeforeTasks # << >>
    /\ Holding(BeforeTasks, last.title) = {}
    /\ last.priority = 3

\* C2 as stated: after every successful delete_task(title), get_task(title)
\* raises TaskNotFoundError.
C2_DeleteThenGet ==
    Succeeded("delete_task") =>
        get_task(storage, last.title).status = "TaskNotFoundError"

\* C2 amended: after a successful delete_task(title), get_task(title) raises
\* TaskNotFoundError when the deleted task was the only one stored with
\* that title; otherwise it returns the next stored task with that title.
C2_DeleteThenGetUnlessDuplicate ==
    Succeeded("delete_task") =>
        LET held == Holding(BeforeTasks, last.title)
            first == CHOOSE j \in held : \A k \in held : j <= k
            rest == held \ {first}
        IN /\ held # {}
           /\ IF rest = {}
              THEN get_task(storage, last.title)
                     = Raise("TaskNotFoundError", not_found(last.title), storage)
              ELSE LET second == CHOOSE j \in rest : \A k \in rest : j <= k
                   IN get_task(storage, last.title)
                        = Return(BeforeTasks[second], storage)

\* C2 witness: the only task with its title has just been deleted from a
\* store that holds another task.
C2_Witness ==
    /\ Succeeded("delete_task")
    /\ Cardinality(Holding(BeforeTasks, last.title)) = 1
    /\ StoredTasks # << >>

\* C3: when the first stored task with the title is active, complete_task
\* succeeds, returns that task with done = true and a non-null completed_at,
\* stores it so, and a second complete_task(title) right after raises
\* ValueError "Task is already completed", whatever the clock shows then.
C3_CompleteTwice ==
    LET held == Holding(BeforeTasks, last.title)
        i == CHOOSE j \in held : \A k \in held : j <= k
    IN (last.op = "complete_task" /\ held # {} /\ ~BeforeTasks[i].done) =>
           /\ last.status = "ok"
           /\ BeforeTasks[i].completed_at = None
           /\ last.ret[1].done = TRUE
           /\ last.ret[1].completed_at # None
           /\ last.ret[1].title = last.title
           /\ StoredTasks[i] = last.ret[1]
           /\ \A t \in 1..Len(Timestamps) :
                  LET again == complete_task(storage, last.title, Timestamps[t])
                  IN /\ again.status = "ValueError"
                     /\ again.msg = "Task is already completed"
                     /\ again.storage = storage

\* C3 witness: the first of two tasks with the same title has just been
\* completed.
C3_Witness ==
    /\ Succeeded("complete_task")
    /\ Cardinality(Holding(StoredTasks, last.title)) = 2

\* C5: an add_task with an empty, whitespace-only or too long title or with
\* a priority outside {1,2,3}, and a complete_task whose first matching
\* task is already done, raise ValueError and leave the file as it was.
C5_ValidationLeavesStorage ==
    /\ (last.op = "add_task"
          /\ (~ValidTitle(last.title) \/ last.priority \notin {1, 2, 3})) =>
           last.status = "ValueError" /\ storage = before
    /\ LET held == Holding(BeforeTasks, last.title)
           i == CHOOSE j \in held : \A k \in held : j <= k
       IN (last.op = "complete_task" /\ held # {} /\ BeforeTasks[i].done) =>
              /\ last.status = "ValueError"
              /\ last.msg = "Task is already completed"
              /\ storage = before

\* C5 witness: a whitespace-only title has just been rejected by a store
\* that holds tasks.
C5_Witness ==
    /\ last.op = "add_task"
    /\ last.title = TitleBlank
    /\ last.priority = 2
    /\ last.status = "ValueError"
    /\ StoredTasks # << >>

\* C6: complete_task, delete_task and get_task with a title no stored task
\* has raise TaskNotFoundError and leave the file as it was.
C6_NotFoundLeavesStorage ==
    (/\ last.op \in {"complete_task", "delete_task", "get_task"}
     /\ Holding(BeforeTasks, last.title) = {}) =>
        /\ last.status = "TaskNotFoundError"
        /\ last.msg = not_found(last.title)
        /\ storage = before

\* C6 witness: delete_task has just missed on a file that holds no JSON.
C6_Witness ==
    /\ last.op = "delete_task"
    /\ last.status = "TaskNotFoundError"
    /\ ~before.text.json

\* C7: every stored task has completed_at non-null exactly when done.
C7_CompletedAtIffDone ==
    \A i \in 1..Len(StoredTasks) :
        (StoredTasks[i].completed_at # None) <=> StoredTasks[i].done

\* C7 witness: the store holds a done task and an active one.
C7_Witness ==
    /\ \E i \in 1..Len(StoredTasks) : StoredTasks[i].done
    /\ \E i \in 1..Len(StoredTasks) : ~StoredTasks[i].done

\* C8: active_tasks_count() + completed_tasks_count() = len(get_all_tasks()).
C8_CountsAddUp ==
    /\ active_tasks_count(storage).status = "ok"
    /\ completed_tasks_count(storage).status = "ok"
    /\ get_all_tasks(storage).status = "ok"
    /\ active_tasks_count(storage).ret[1] + completed_tasks_count(storage).ret[1]
         = Len(get_all_tasks(storage).ret[1])

\* C8 witness: both counts are positive.
C8_Witness ==
    /\ active_tasks_count(storage).ret[1] > 0
    /\ completed_tasks_count(storage).ret[1] > 0

\* C9: a call leaves every done task as it was, completed_at included, at
\* its place in the collection; only delete_task takes a task away, and
\* the tasks after the deleted one move up by one place.
C9_DoneStaysDone ==
    IF Succeeded("delete_task")
    THEN /\ Len(StoredTasks) = Len(BeforeTasks) - 1
         /\ \E k \in 1..Len(BeforeTasks) :
                /\ BeforeTasks[k] = last.ret[1]
                /\ \A i \in 1..Len(BeforeTasks) :
                       (BeforeTasks[i].done /\ i # k) =>
                           StoredTasks[IF i < k THEN i ELSE i - 1] = BeforeTasks[i]
    ELSE \A i \in 1..Len(BeforeTasks) :
             BeforeTasks[i].done =>
                 /\ i <= Len(StoredTasks)
                 /\ StoredTasks[i] = BeforeTasks[i]

\* C9 witness: complete_task has just been refused on a task that was
\* completed at an earlier time.
C9_Witness ==
    /\ last.op = "complete_task"
    /\ last.status = "ValueError"
    /\ \E i \in 1..Len(StoredTasks) :
           /\ StoredTasks[i].title = last.title
           /\ StoredTasks[i].done
           /\ StoredTasks[i].completed_at # now

WithPriority(tasks, p) == {i \in 1..Len(tasks) : tasks[i].priority = p}

Nth(positions, k) ==
    CHOOSE i \in positions : Cardinality({j \in positions : j <= i}) = k

\* C11: for every p in {1,2,3}, get_tasks_by_priority(p) returns the stored
\* tasks whose priority is p, all of them and no other, in the order they
\* have in get_all_tasks().
C11_FilterByPriority ==
    \A p \in {1, 2, 3} :
        LET r == get_tasks_by_priority(storage, p)
            all == get_all_tasks(storage).ret[1]
            at == WithPriority(all, p)
        IN /\ r.status = "ok"
           /\ r.storage = storage
           /\ Len(r.ret[1]) = Cardinality(at)
           /\ \A k \in 1..Len(r.ret[1]) : r.ret[1][k] = all[Nth(at, k)]

\* C11 witness: get_tasks_by_priority has just returned two different
\* tasks.
C11_Witness ==
    /\ Succeeded("get_tasks_by_priority")
    /\ Len(last.ret[1]) = 2
    /\ last.ret[1][1] # last.ret[1][2]

\* A title that is neither empty nor only whitespace.
NotBlank(title) == \E i \in 1..Len(title) : title[i].ch \notin Whitespace

\* C12: for a title that is not blank and a priority in {1,2,3}, add_task
\* succeeds and stores the task when the title has at most 200 characters,
\* and raises ValueError, storing nothing, when it has 201 or more.
C12_TitleLengthBoundary ==
    (last.op = "add_task" /\ NotBlank(last.title)
       /\ last.priority \in {1, 2, 3}) =>
        IF len(last.title) <= 200
        THEN /\ last.status = "ok"
             /\ last.ret[1].title = last.title
             /\ StoredTasks = Append(BeforeTasks, last.ret[1])
        ELSE /\ last.status = "ValueError"
             /\ last.msg = "Task title cannot exceed 200 characters"
             /\ storage = before

\* C12 witness: a title of exactly 200 characters has just been stored.
C12_Witness ==
    /\ Succeeded("add_task")
    /\ len(last.title) = 200
    /\ StoredTasks[Len(StoredTasks)].title = TitleMax

\* C13: on a file json.loads rejects, get_all_tasks returns [], both counts
\* are 0, get_tasks_by_priority returns [], complete_task, delete_task and
\* get_task raise TaskNotFoundError, and none of them changes the file.
C13_UnparsableReadsAsEmpty ==
    (constructed /\ ~storage.text.json) =>
        /\ get_all_tasks(storage) = Return(<< >>, storage)
        /\ active_tasks_count(storage) = Return(0, storage)
        /\ completed_tasks_count(storage) = Return(0, storage)
        /\ \A p \in {1, 2, 3} :
               get_tasks_by_priority(storage, p) = Return(<< >>, storage)
        /\ get_high_priority_tasks(storage) = Return(<< >>, storage)
        /\ \A title \in Titles :
               /\ \A t \in 1..Len(Timestamps) :
                      complete_task(storage, title, Timestamps[t])
                        = Raise("TaskNotFoundError", not_found(title), storage)
               /\ delete_task(storage, title)
                    = Raise("TaskNotFoundError", not_found(title), storage)
               /\ get_task(storage, title)
                    = Raise("TaskNotFoundError", not_found(title), storage)

\* C13 witness: get_all_tasks has just returned [] from a file that holds
\* no JSON.
C13_Witness ==
    /\ Succeeded("get_all_tasks")
    /\ last.ret[1] = << >>
    /\ storage.exists /\ ~storage.text.json

\* C14: loading what _save wrote gives back the saved tasks, field for
\* field and in order, and saving what _load read rewrites the same file;
\* for the stored collection and for the task a call has just returned.
C14_RoundTrip ==
    /\ _load(_save(StoredTasks)) = StoredTasks
    /\ ~_load_raises(_save(StoredTasks))
    /\ storage.text.json => _save(_load(storage)) = storage
    /\ (Succeeded("add_task") \/ Succeeded("complete_task")
          \/ Succeeded("delete_task")) =>
           /\ _load(_save(<<last.ret[1]>>)) = <<last.ret[1]>>
           /\ _load(_save(Append(BeforeTasks, last.ret[1])))
                = Append(BeforeTasks, last.ret[1])

\* C14 witness: the stored collection holds an active task after a done one
\* with another title.
C14_Witness ==
    /\ Len(StoredTasks) = 2
    /\ StoredTasks[1].done /\ StoredTasks[1].completed_at # None
    /\ ~StoredTasks[2].done /\ StoredTasks[2].completed_at = None
    /\ StoredTasks[1].title # StoredTasks[2].title

\* C15: a successful add_task raises active_tasks_count by 1 and leaves
\* completed_tasks_count as it was; a successful complete_task lowers
\* active_tasks_count by 1 and raises completed_tasks_count by 1; a
\* successful delete_task lowers len(get_all_tasks()) by 1.  So a store
\* that n successful add_task calls built from nothing counts n active.
C15_CountsStepByOne ==
    LET active == active_tasks_count(storage).ret[1]
        completed == completed_tasks_count(storage).ret[1]
        total == Len(get_all_tasks(storage).ret[1])
        active0 == active_tasks_count(before).ret[1]
        completed0 == completed_tasks_count(before).ret[1]
        total0 == Len(get_all_tasks(before).ret[1])
    IN /\ Succeeded("add_task") =>
              active = active0 + 1 /\ completed = completed0
       /\ Succeeded("complete_task") =>
              /\ active = active0 - 1
              /\ completed = completed0 + 1
              /\ total = total0
       /\ Succeeded("delete_task") => total = total0 - 1
       /\ (Succeeded("add_task") /\ completed = 0 /\ total0 = active0) =>
              active = total

\* C15 witness: complete_task has just completed the last active task of a
\* store that holds MaxTasks tasks.
C15_Witness ==
    /\ Succeeded("complete_task")
    /\ active_tasks_count(storage).ret[1] = 0
    /\ completed_tasks_count(storage).ret[1] = MaxTasks

\* C16: every stored task has a priority in {1,2,3}, and an add_task with
\* any other priority raises ValueError and stores nothing.
C16_PriorityInRange ==
    /\ \A i \in 1..Len(StoredTasks) : StoredTasks[i].priority \in {1, 2, 3}
    /\ storage.text.json =>
           \A i \in 1..Len(storage.text.items) :
               storage.text.items[i].priority \in {1, 2, 3}
    /\ (last.op = "add_task" /\ last.priority \notin {1, 2, 3}) =>
           last.status = "ValueError" /\ storage = before

\* C16 witness: add_task with priority 0 and a valid title has just been
\* refused by a store that holds a task.
C16_Witness ==
    /\ last.op = "add_task"
    /\ last.priority = 0
    /\ last.title = TitleA
    /\ last.status = "ValueError"
    /\ Len(StoredTasks) = 1

\* C17 as stated: once a TodoApp has been constructed, the file exists and
\* holds JSON, whatever the location held before.
C17_ConstructedFileIsJson ==
    constructed => storage.exists /\ storage.text.json

\* C18: on a file json.loads rejects, add_task with a valid title and
\* priority raises nothing and leaves a file that holds the new task alone;
\* every other call, and every add_task that raises, leaves the file as it
\* was.
C18_DiscardOnCorruption ==
    (before.exists /\ ~before.text.json) =>
        /\ (last.op = "add_task" /\ ValidTitle(last.title)
               /\ last.priority \in {1, 2, 3}) => last.status = "ok"
        /\ IF Succeeded("add_task")
           THEN /\ storage = _save(<<last.ret[1]>>)
                /\ StoredTasks = <<last.ret[1]>>
                /\ last.ret[1].title = last.title
           ELSE storage = before

\* C18 witness: add_task has just replaced a file that held no JSON.
C18_Witness ==
    /\ Succeeded("add_task")
    /\ before.exists /\ ~before.text.json
    /\ storage.text.json

\* C19: a successful delete_task(title) returns the first stored task with
\* that title, as it was stored, and leaves the collection without that
\* one element: the others, later tasks with the same title included, keep
\* their state and their order.
C19_DeleteRemovesFirstMatch ==
    Succeeded("delete_task") =>
        LET held == Holding(BeforeTasks, last.title)
            k == CHOOSE j \in held : \A i \in held : j <= i
        IN /\ held # {}
           /\ last.ret[1] = BeforeTasks[k]
           /\ StoredTasks = Remove(BeforeTasks, k)
           /\ storage = _save(Remove(BeforeTasks, k))

\* C19 witness: delete_task has just removed a done task and left a
\* different task with the same title.
C19_Witness ==
    /\ Succeeded("delete_task")
    /\ last.ret[1].done
    /\ \E i \in 1..Len(StoredTasks) :
           /\ StoredTasks[i].title = last.title
           /\ StoredTasks[i] # last.ret[1]

\* C20: a successful complete_task(title) changes the done and completed_at
\* fields of the first stored task with that title and nothing else: its
\* title, priority and created_at, every other task and the order stay.
C20_CompleteChangesOneTask ==
    Succeeded("complete_task") =>
        LET held == Holding(BeforeTasks, last.title)
            k == CHOOSE j \in held : \A i \in held : j <= i
        IN /\ held # {}
           /\ Len(StoredTasks) = Len(BeforeTasks)
           /\ \A i \in 1..Len(BeforeTasks) :
                  i # k => StoredTasks[i] = BeforeTasks[i]
           /\ StoredTasks[k].title = BeforeTasks[k].title
           /\ StoredTasks[k].priority = BeforeTasks[k].priority
           /\ StoredTasks[k].created_at = BeforeTasks[k].created_at
           /\ StoredTasks[k].done /\ ~BeforeTasks[k].done
           /\ StoredTasks[k].completed_at # None
           /\ StoredTasks[k] = last.ret[1]

\* C20 witness: complete_task has just completed, at a later time than its
\* creation, the first of two tasks with the same title, and the second is
\* still active.
C20_Witness ==
    /\ Succeeded("complete_task")
    /\ Cardinality(Holding(StoredTasks, last.title)) = 2
    /\ ~StoredTasks[2].done
    /\ StoredTasks[1].completed_at # StoredTasks[1].created_at

\* C21: a successful add_task returns a new active task with the title and
\* priority given, and leaves the collection that was stored before the
\* call, unchanged and in the same order, followed by that task; a title
\* that is already stored is accepted, and the store then holds one more
\* task with that title.
C21_AddAppends ==
    /\ (last.op = "add_task" /\ ValidTitle(last.title)
           /\ last.priority \in {1, 2, 3}) => last.status = "ok"
    /\ Succeeded("add_task") =>
           /\ last.ret[1].title = last.title
           /\ last.ret[1].priority = last.priority
           /\ ~last.ret[1].done /\ last.ret[1].completed_at = None
           /\ get_all_tasks(storage)
                = Return(Append(BeforeTasks, last.ret[1]), storage)
           /\ storage = _save(Append(BeforeTasks, last.ret[1]))
           /\ Cardinality(Holding(StoredTasks, last.title))
                = Cardinality(Holding(BeforeTasks, last.title)) + 1

\* C21 witness: a title that was already stored has just been added again,
\* with another priority, and the store holds both tasks.
C21_Witness ==
    /\ Succeeded("add_task")
    /\ Len(BeforeTasks) = 1
    /\ BeforeTasks[1].title = last.title
    /\ BeforeTasks[1].priority # last.priority
    /\ Cardinality(Holding(StoredTasks, last.title)) = 2

\* The operations that only read.
ReadOps ==
    {"get_task", "get_all_tasks", "active_tasks_count",
     "completed_tasks_count", "get_tasks_by_priority",
     "get_high_priority_tasks"}

\* C22: get_task, get_all_tasks, active_tasks_count, completed_tasks_count,
\* get_tasks_by_priority and get_high_priority_tasks leave the file as it
\* was before the call, whether they return or raise, for every argument.
C22_ReadsLeaveStorage ==
    /\ last.op \in ReadOps => storage = before
    /\ \A title \in Titles : get_task(storage, title).storage = storage
    /\ \A priority \in Priorities :
           get_tasks_by_priority(storage, priority).storage = storage
    /\ get_all_tasks(storage).storage = storage
    /\ active_tasks_count(storage).storage = storage
    /\ completed_tasks_count(storage).storage = storage
    /\ get_high_priority_tasks(storage).storage = storage

\* C22 witness: get_tasks_by_priority has just raised ValueError on a store
\* of two tasks with different priorities, where a get_task raises
\* TaskNotFoundError and a get_tasks_by_priority returns one of the two.
C22_Witness ==
    /\ last.op = "get_tasks_by_priority"
    /\ last.status = "ValueError"
    /\ Len(StoredTasks) = 2
    /\ StoredTasks[1].priority # StoredTasks[2].priority
    /\ \E title \in Titles :
           get_task(storage, title).status = "TaskNotFoundError"
    /\ Len(get_tasks_by_priority(storage, StoredTasks[1].priority).ret[1]) = 1

(***************************************************************************)
(* Properties of the two-caller specification SpecRace.                    *)
(***************************************************************************)
\* Caller c is back from a successful add_task.
AddReturned(c) ==
    /\ callers[c].pc = "idle"
    /\ callers[c].op = "add_task"
    /\ callers[c].status = "ok"

\* The file a successful add_task of caller c writes: the list it loaded
\* and the task it returned.
AddWrote(c) == _save(Append(_load(callers[c].snapshot), callers[c].ret[1]))

\* C4: when both callers are back from successful add_task calls that
\* loaded the same list, the file never holds both tasks: it holds what one
\* of them wrote, the loaded list and that caller's task alone, so that the
\* other caller's task is lost, or, when the shorter text was written over
\* the longer, a text json.loads rejects, so that both are.
C4_LostUpdate ==
    (/\ AddReturned(1) /\ AddReturned(2)
     /\ _load(callers[1].snapshot) = _load(callers[2].snapshot)) =>
        \/ /\ storage \in {AddWrote(1), AddWrote(2)}
           /\ Len(_load(storage)) = Len(_load(callers[1].snapshot)) + 1
        \/ /\ storage \in {File(Torn(st_size(AddWrote(1)))),
                            File(Torn(st_size(AddWrote(2))))}
           /\ st_size(AddWrote(1)) # st_size(AddWrote(2))
           /\ _load(storage) = << >>

\* C4 witness: two add_task calls, the only calls made, have both returned
\* a task, the two tasks differ, and the file holds one task.
C4_Witness ==
    /\ calls = 2
    /\ AddReturned(1) /\ AddReturned(2)
    /\ callers[1].ret # callers[2].ret
    /\ Len(_load(storage)) = 1

\* The Task invariant: a priority of 1, 2 or 3, and a completed_at exactly
\* when the task is done.
TaskInvariant(t) ==
    /\ t.priority \in {1, 2, 3}
    /\ t.done \in BOOLEAN
    /\ (t.completed_at # None) <=> t.done

\* `file` holds the JSON text of one whole list of tasks, each of which
\* satisfies the Task invariant.
WholeSnapshot(file) ==
    /\ file.exists /\ file.text.json
    /\ ~_load_raises(file)
    /\ file = _save(_load(file))
    /\ \A i \in 1..Len(_load(file)) : TaskInvariant(_load(file)[i])

\* C23: however the steps of the two callers interleave, every text a call
\* writes is a whole snapshot of tasks that satisfy the Task invariant, and
\* so is every text a call loads from or finds in the file, unless it is
\* the empty text of a file opened for writing or a torn text, which
\* json.loads rejects and _load reads as the empty list; every task a call
\* returns satisfies the invariant too.
C23_RaceKeepsTaskInvariant ==
    /\ WholeSnapshot(storage)
          \/ (storage.exists /\ ~storage.text.json /\ _load(storage) = << >>)
    /\ \A c \in Callers :
           /\ callers[c].pc = "writing" => WholeSnapshot(callers[c].pending)
           /\ callers[c].pc # "idle" =>
                  \/ WholeSnapshot(callers[c].snapshot)
                  \/ _load(callers[c].snapshot) = << >>
           /\ (callers[c].op # "none" /\ callers[c].pc # "loaded"
                  /\ callers[c].status = "ok") =>
                  TaskInvariant(callers[c].ret[1])

\* C23 witness: a complete_task and an add_task that loaded the same list
\* have both returned, the add_task wrote last, and the file holds a whole
\* snapshot in which the task complete_task returned as done is active
\* again.
C23_Witness ==
    \E c, d \in Callers :
        /\ c # d
        /\ callers[c].pc = "idle" /\ callers[d].pc = "idle"
        /\ callers[c].op = "complete_task" /\ callers[c].status = "ok"
        /\ callers[d].op = "add_task" /\ callers[d].status = "ok"
        /\ callers[c].snapshot = callers[d].snapshot
        /\ callers[c].ret[1].done
        /\ WholeSnapshot(storage)
        /\ storage = _save(Append(_load(callers[d].snapshot), callers[d].ret[1]))
        /\ \A i \in 1..Len(_load(storage)) : ~_load(storage)[i].done

====
